---- MODULE Spec2Model ----
(***************************************************************************)
(* Model of regulus: the K-weighting filter (src/src/filter.rs) and the    *)
(* gated loudness aggregation (src/src/loudness.rs).                       *)
(*                                                                         *)
(* f64 values are modelled in two ways.  In the loudness part a value is a *)
(* record [cls, v]: cls is "num" (finite, v an integer count of units),    *)
(* "nan", "ninf" or "pinf"; powers are counted in power quanta and         *)
(* loudness in thousandths of an LKFS.  In the filter part a sample is a   *)
(* finite fixed-point integer with FixScale units per 1.0 and a            *)
(* coefficient a decimal number of twelve fractional digits.               *)
(***************************************************************************)
EXTENDS Integers, Sequences, FiniteSets, TLC

\* Number of channels of a frame (the generic parameter N / F::NumChannels).
NumChannels == 2

\* Largest number of blocks the power signal yields.
MaxBlocks == 3

\* Largest number of samples a sample source holds.
MaxLen == 3

\* Largest number of calls of next() on an exhausted adapter.
MaxNoneCalls == 2

\* Fixed-point units per 1.0 in the filter part.
FixScale == 10000

Channels == 1..NumChannels

VARIABLES
    \* ---- Loudness::from_gated_powers ----
    pc,                           \* "abs", "rel" or "done"
    gated_powers,                 \* the blocks the signal has yielded so far
    channel_weights,
    averager,
    absolutely_loud_blocks,
    num_gates,
    absolute_loudness,
    relative_loudness_threshold,
    relative_averager,
    rel_pos,                      \* blocks of absolutely_loud_blocks consumed
    relative_loudness,
    \* ---- FilteredSamples ----
    sample_rate,                  \* the rate the adapter was built with
    source,                       \* every sample the source held at construction
    samples,                      \* the source iterator: the samples still to come
    filter,                       \* the adapter's Filter
    returned,                     \* what the last call of next() returned
    outputs,                      \* the samples next() has returned so far
    none_calls                    \* calls of next() that returned None

loudnessVars == <<pc, gated_powers, channel_weights, averager,
                  absolutely_loud_blocks, num_gates, absolute_loudness,
                  relative_loudness_threshold, relative_averager, rel_pos,
                  relative_loudness>>

filterVars == <<sample_rate, source, samples, filter, returned, outputs, none_calls>>

vars == <<loudnessVars, filterVars>>

-----------------------------------------------------------------------------
(* f64 arithmetic of the loudness part *)

Num(n) == [cls |-> "num", v |-> n]
NaN == [cls |-> "nan", v |-> 0]
NegInf == [cls |-> "ninf", v |-> 0]
PosInf == [cls |-> "pinf", v |-> 0]
\* A binding that has not been evaluated yet.
Unset == [cls |-> "unset", v |-> 0]

IsInf(a) == a.cls \in {"ninf", "pinf"}

FNeg(a) ==
    CASE a.cls = "num" -> Num(-a.v)
      [] a.cls = "ninf" -> PosInf
      [] a.cls = "pinf" -> NegInf
      [] OTHER -> NaN

FAdd(a, b) ==
    CASE a.cls = "nan" \/ b.cls = "nan" -> NaN
      [] a.cls = "num" /\ b.cls = "num" -> Num(a.v + b.v)
      [] IsInf(a) /\ IsInf(b) -> IF a.cls = b.cls THEN a ELSE NaN
      [] IsInf(a) -> a
      [] OTHER -> b

FSub(a, b) == FAdd(a, FNeg(b))

Sign(a) ==
    CASE a.cls = "ninf" -> -1
      [] a.cls = "pinf" -> 1
      [] OTHER -> IF a.v > 0 THEN 1 ELSE IF a.v < 0 THEN -1 ELSE 0

FMul(a, b) ==
    CASE a.cls = "nan" \/ b.cls = "nan" -> NaN
      [] a.cls = "num" /\ b.cls = "num" -> Num(a.v * b.v)
      [] Sign(a) * Sign(b) = 0 -> NaN
      [] Sign(a) * Sign(b) > 0 -> PosInf
      [] OTHER -> NegInf

\* Quotient of two integers rounded towards zero.
TruncDiv(x, y) ==
    IF (x >= 0) = (y > 0) THEN (IF x >= 0 THEN x ELSE -x) \div (IF y > 0 THEN y ELSE -y)
    ELSE -((IF x >= 0 THEN x ELSE -x) \div (IF y > 0 THEN y ELSE -y))

FDiv(a, b) ==
    CASE a.cls = "nan" \/ b.cls = "nan" -> NaN
      [] IsInf(a) /\ IsInf(b) -> NaN
      [] IsInf(a) -> IF Sign(b) >= 0 THEN a ELSE FNeg(a)
      [] IsInf(b) -> Num(0)
      [] b.v = 0 -> IF a.v = 0 THEN NaN ELSE IF a.v > 0 THEN PosInf ELSE NegInf
      [] OTHER -> Num(TruncDiv(a.v, b.v))

\* a > b on f64: false whenever either side is NaN.
FGt(a, b) ==
    CASE a.cls = "nan" \/ b.cls = "nan" -> FALSE
      [] a.cls = "num" /\ b.cls = "num" -> a.v > b.v
      [] a.cls = "pinf" -> b.cls # "pinf"
      [] a.cls = "ninf" -> FALSE
      [] OTHER -> b.cls = "ninf"

FGe(a, b) ==
    CASE a.cls = "nan" \/ b.cls = "nan" -> FALSE
      [] OTHER -> ~FGt(b, a)

\* 10000 * log10(m / 10) rounded to the nearest integer, for m = 10 .. 99.
Log10Table ==
  << 0, 414, 792, 1139, 1461, 1761, 2041, 2304, 2553, 2788,
     3010, 3222, 3424, 3617, 3802, 3979, 4150, 4314, 4472, 4624,
     4771, 4914, 5051, 5185, 5315, 5441, 5563, 5682, 5798, 5911,
     6021, 6128, 6232, 6335, 6435, 6532, 6628, 6721, 6812, 6902,
     6990, 7076, 7160, 7243, 7324, 7404, 7482, 7559, 7634, 7709,
     7782, 7853, 7924, 7993, 8062, 8129, 8195, 8261, 8325, 8388,
     8451, 8513, 8573, 8633, 8692, 8751, 8808, 8865, 8921, 8976,
     9031, 9085, 9138, 9191, 9243, 9294, 9345, 9395, 9445, 9494,
     9542, 9590, 9638, 9685, 9731, 9777, 9823, 9868, 9912, 9956 >>

RECURSIVE Mantissa(_)
\* The two leading decimal digits of n >= 1, as a number in 10 .. 99.
Mantissa(n) == IF n < 10 THEN n * 10 ELSE IF n < 100 THEN n ELSE Mantissa(n \div 10)

RECURSIVE Exponent(_)
\* The decimal exponent of n >= 1: n lies in [10^e, 10^(e+1)).
Exponent(n) == IF n < 10 THEN 0 ELSE 1 + Exponent(n \div 10)

\* 10 * log10(x) of a power x, in thousandths of a dB.  A power of n quanta
\* stands for n * 10^(-7.9309), so that 10 quanta weigh exactly -69.309 dB;
\* log10 keeps two significant digits of its argument.
TenLog10(x) ==
    CASE x.cls = "nan" \/ x.cls = "ninf" -> NaN
      [] x.cls = "pinf" -> PosInf
      [] x.v < 0 -> NaN
      [] x.v = 0 -> NegInf
      [] OTHER -> Num(10000 * Exponent(x.v) + Log10Table[Mantissa(x.v) - 9] - 79309)

-----------------------------------------------------------------------------
(* crate::util::Util and crate::stats::Stats *)

RECURSIVE WeightedSum(_, _, _)
\* sum over the channels 1 .. n of weights[i] * frame[i]
WeightedSum(frame, weights, n) ==
    IF n = 0 THEN Num(0)
    ELSE FAdd(WeightedSum(frame, weights, n - 1), FMul(weights[n], frame[n]))

\* Util::loudness: -0.691 + 10 * log10(sum_i weights[i] * frame[i])
loudness(frame, weights) ==
    FAdd(Num(-691), TenLog10(WeightedSum(frame, weights, NumChannels)))

\* Stats::new: nothing added yet.
StatsNew == [count |-> 0, acc |-> [c \in Channels |-> Num(0)]]

\* Stats::add: one more vector in the running mean.
StatsAdd(s, frame) ==
    [count |-> s.count + 1, acc |-> [c \in Channels |-> FAdd(s.acc[c], frame[c])]]

\* Stats::mean: the arithmetic mean of the vectors added so far (0 / 0 when
\* none was).
StatsMean(s) == [c \in Channels |-> FDiv(s.acc[c], Num(s.count))]

-----------------------------------------------------------------------------
(* Fixed-point f64 arithmetic of the filter part *)

(* A sample is an integer count of 1 / FixScale.  A coefficient, and every  *)
(* value Kind::coefficients computes on the way to it, is a decimal number  *)
(* of twelve fractional digits <<i, a, b, c>>, standing for                 *)
(*     i + a / FixScale + b / FixScale^2 + c / FixScale^3                   *)
(* with a, b, c in 0 .. FixScale - 1 and i any integer, so that the sign of *)
(* the number is the sign of i.                                             *)

\* n / d rounded to the nearest integer, halves away from zero (d > 0).
RoundDiv(n, d) == IF n >= 0 THEN (2 * n + d) \div (2 * d) ELSE -((2 * (-n) + d) \div (2 * d))

\* The product of two samples, or of a sample and a rounded coefficient.
FixMul(x, y) == RoundDiv(x * y, FixScale)

\* The decimal with the digit groups l0 .. l3, carries propagated.
Norm(l0, l1, l2, l3) ==
    LET t2 == l2 + (l3 \div FixScale)
        t1 == l1 + (t2 \div FixScale)
    IN  << l0 + (t1 \div FixScale), t1 % FixScale, t2 % FixScale, l3 % FixScale >>

DecInt(n) == << n, 0, 0, 0 >>

DecNeg(x) == Norm(-x[1], -x[2], -x[3], -x[4])

DecAdd(x, y) == Norm(x[1] + y[1], x[2] + y[2], x[3] + y[3], x[4] + y[4])

DecSub(x, y) == Norm(x[1] - y[1], x[2] - y[2], x[3] - y[3], x[4] - y[4])

\* x <= y
DecLeq(x, y) == DecSub(y, x)[1] >= 0

\* x * y, the digits beyond the twelfth dropped.
DecMul(x, y) ==
    LET c5 == x[3] * y[4] + x[4] * y[3]
        c4 == x[2] * y[4] + x[3] * y[3] + x[4] * y[2] + (c5 \div FixScale)
    IN  Norm(x[1] * y[1],
             x[1] * y[2] + x[2] * y[1],
             x[1] * y[3] + x[2] * y[2] + x[3] * y[1],
             x[1] * y[4] + x[2] * y[3] + x[3] * y[2] + x[4] * y[1] + (c4 \div FixScale))

\* x / n for an integer 0 < n <= 200000, by long division.
DecDivInt(x, n) ==
    LET r1 == (x[1] % n) * FixScale + x[2]
        r2 == (r1 % n) * FixScale + x[3]
        r3 == (r2 % n) * FixScale + x[4]
    IN  << x[1] \div n, r1 \div n, r2 \div n, r3 \div n >>

\* 1 / y for 0 < y < FixScale: three Newton steps from a four-digit quotient.
DecRecip(y) ==
    LET g == (FixScale * FixScale) \div (y[1] * FixScale + y[2])
        r0 == << g \div FixScale, g % FixScale, 0, 0 >>
        r1 == DecMul(r0, DecSub(DecInt(2), DecMul(y, r0)))
        r2 == DecMul(r1, DecSub(DecInt(2), DecMul(y, r1)))
    IN  DecMul(r2, DecSub(DecInt(2), DecMul(y, r2)))

DecDiv(x, y) == DecMul(x, DecRecip(y))

\* A decimal rounded to a count of 1 / FixScale.
Fix(x) == x[1] * FixScale + x[2] + (IF 2 * x[3] >= FixScale THEN 1 ELSE 0)

\* std::f64::consts::PI
PI == << 3, 1415, 9265, 3590 >>

RECURSIVE AlternatingSeries(_, _, _, _)
\* term - term * x2 / ((n+1)(n+2)) + ... up to the power last: the Taylor
\* series of sin (term = x, n = 1) and of cos (term = 1, n = 0).
AlternatingSeries(term, x2, n, last) ==
    IF n >= last THEN term
    ELSE DecSub(term,
                AlternatingSeries(DecDivInt(DecMul(term, x2), (n + 1) * (n + 2)),
                                  x2, n + 2, last))

\* f64::tan, as sin / cos of their Taylor series.
Tan(x) ==
    LET x2 == DecMul(x, x)
    IN  DecDiv(AlternatingSeries(x, x2, 1, 19),
               AlternatingSeries(DecInt(1), x2, 0, 18))

RECURSIVE ExpSeries(_, _, _, _)
\* term + term * z / (n+1) + ...: the Taylor series of e^z from its n-th term.
ExpSeries(term, z, n, last) ==
    IF n >= last THEN term
    ELSE DecAdd(term, ExpSeries(DecDivInt(DecMul(term, z), n + 1), z, n + 1, last))

\* e^z for 0 <= z < 1
Exp(z) == ExpSeries(DecInt(1), z, 0, 18)

RECURSIVE AtanhSeries(_, _, _, _)
\* power / n + power * y2 / (n+2) + ...: the series of atanh from y^n / n.
AtanhSeries(power, y2, n, last) ==
    IF n >= last THEN DecDivInt(power, n)
    ELSE DecAdd(DecDivInt(power, n), AtanhSeries(DecMul(power, y2), y2, n + 2, last))

RECURSIVE Ln(_)
\* ln x for x >= 1: halve x down to [1, 2), then 2 * atanh((x - 1) / (x + 1)).
Ln(x) ==
    IF x[1] >= 2 THEN DecAdd(<< 0, 6931, 4718, 560 >>, Ln(DecDivInt(x, 2)))
    ELSE LET y == DecDiv(DecSub(x, DecInt(1)), DecAdd(x, DecInt(1)))
             series == AtanhSeries(y, DecMul(y, y), 1, 25)
         IN  DecAdd(series, series)

\* f64::powf for a base >= 1 and an exponent whose product with ln base is
\* in [0, 1)
Powf(base, e) == Exp(DecMul(e, Ln(base)))

-----------------------------------------------------------------------------
(* Kind::coefficients *)

Kinds == {"Shelving", "HighPass"}

SAMPLE_RATES == {8000, 44100, 48000, 192000}

\* Lines 33-40 with the sign of b1's numerator slipped
ShelvingNumerator_b1(k_by_q, k_sq, a0, vh, vb) ==
    [b0 |-> DecDiv(DecAdd(DecAdd(vh, DecMul(vb, k_by_q)), k_sq), a0),
     b1 |-> DecDiv(DecMul(DecInt(2), DecAdd(k_sq, vh)), a0),
     b2 |-> DecDiv(DecAdd(DecSub(vh, DecMul(vb, k_by_q)), k_sq), a0)]

\* Lines 38-40: the numerator of the shelving filter from vh and vb.
ShelvingNumerator(k_by_q, k_sq, a0, vh, vb) ==
    [b0 |-> DecDiv(DecAdd(DecAdd(vh, DecMul(vb, k_by_q)), k_sq), a0),
     b1 |-> DecDiv(DecMul(DecInt(2), DecSub(k_sq, vh)), a0),
     b2 |-> DecDiv(DecAdd(DecSub(vh, DecMul(vb, k_by_q)), k_sq), a0)]

\* Lines 33-36: vb from vh.
ShelvingFromVh(k_by_q, k_sq, a0, vh) ==
    ShelvingNumerator(k_by_q, k_sq, a0, vh, Powf(vh, << 0, 4996, 6677, 4155 >>))

\* Lines 30-46: the numerator of either kind.
Numerator(kind, k_by_q, k_sq, a0) ==
    IF kind = "Shelving"
    THEN ShelvingFromVh(k_by_q, k_sq, a0,
                        Powf(DecInt(10), DecDivInt(<< 3, 9998, 4385, 3973 >>, 20)))
    ELSE [b0 |-> DecInt(1), b1 |-> DecInt(-2), b2 |-> DecInt(1)]

\* Lines 27-28 and 48: a1, a2 and the numerator b put together.
CoefficientsAssembled(kind, k_by_q, k_sq, a0, b) ==
    [a1 |-> DecDiv(DecMul(DecInt(2), DecSub(k_sq, DecInt(1))), a0),
     a2 |-> DecDiv(DecAdd(DecSub(DecInt(1), k_by_q), k_sq), a0),
     b0 |-> b.b0, b1 |-> b.b1, b2 |-> b.b2]

\* Lines 27-48: the coefficients from the normalisation divisor a0.
CoefficientsFromA0(kind, k_by_q, k_sq, a0) ==
    CoefficientsAssembled(kind, k_by_q, k_sq, a0, Numerator(kind, k_by_q, k_sq, a0))

\* Lines 26-48: a0 from k_by_q and k_sq, and the coefficients from it.
CoefficientsFromSquares(kind, k_by_q, k_sq) ==
    CoefficientsFromA0(kind, k_by_q, k_sq,
                              DecAdd(DecAdd(DecInt(1), k_by_q), k_sq))

\* Lines 23-48: k_by_q and k_sq from k, and the coefficients from them.
CoefficientsFromK(kind, k, q) == CoefficientsFromSquares(kind, DecDiv(k, q), DecMul(k, k))

\* Kind::coefficients: f0 and q of the kind, k = tan(PI * f0 / sample_rate),
\* and the coefficients from k.
coefficients(kind, rate) ==
    CoefficientsFromK(
        kind,
        Tan(DecDivInt(DecMul(PI, IF kind = "Shelving" THEN << 1681, 9744, 5095, 5533 >>
                                                      ELSE << 38, 1354, 7087, 6024 >>),
                      rate)),
        IF kind = "Shelving" THEN << 0, 7071, 7523, 6955 >> ELSE << 0, 5003, 2703, 7324 >>)

\* The coefficients of every kind at every rate, computed once.
CoefficientTable ==
    [kind \in Kinds |-> [rate \in SAMPLE_RATES |-> coefficients(kind, rate)]]

-----------------------------------------------------------------------------
(* dasp::Frame of f64 samples *)

EQUILIBRIUM == [c \in Channels |-> 0]

\* Frame::add_amp: channel-wise sum
add_amp(f, g) == [c \in Channels |-> f[c] + g[c]]

\* Frame::scale_amp: every channel times a scalar
scale_amp(f, amp) == [c \in Channels |-> FixMul(f[c], Fix(amp))]

\* Frame::offset_amp: a scalar added to every channel
offset_amp(f, amp) == [c \in Channels |-> f[c] + Fix(amp)]

\* Sample::to_sample::<f64> of a sample that is an f64 already, as the
\* samples of every caller are.
to_sample(x) == x

-----------------------------------------------------------------------------
(* FilterPass, Filter *)

from_coeff(coeff) == [coeff |-> coeff, m1 |-> EQUILIBRIUM, m2 |-> EQUILIBRIUM]

from_kind(kind, rate) == from_coeff(CoefficientTable[kind][rate])

\* FilterPass::apply with the first term added as a scalar offset
PassApply_offset(pass, raw) ==
    LET input == [c \in Channels |-> to_sample(raw[c])]
        co == pass.coeff
        out == add_amp(pass.m1, offset_amp(input, co.b0))
    IN  [pass |-> [coeff |-> co,
                   m1 |-> add_amp(pass.m2, add_amp(scale_amp(input, co.b1),
                                                    scale_amp(out, DecNeg(co.a1)))),
                   m2 |-> add_amp(scale_amp(input, co.b2), scale_amp(out, DecNeg(co.a2)))],
         out |-> out]

\* FilterPass::apply with m2 updated before m1 reads it
PassApply_newm2(pass, raw) ==
    LET input == [c \in Channels |-> to_sample(raw[c])]
        co == pass.coeff
        out == add_amp(pass.m1, scale_amp(input, co.b0))
        m2 == add_amp(scale_amp(input, co.b2), scale_amp(out, DecNeg(co.a2)))
    IN  [pass |-> [coeff |-> co,
                   m1 |-> add_amp(m2, add_amp(scale_amp(input, co.b1),
                                              scale_amp(out, DecNeg(co.a1)))),
                   m2 |-> m2],
         out |-> out]

\* FilterPass::apply: the new pass and the output frame
PassApply(pass, raw) ==
    LET input == [c \in Channels |-> to_sample(raw[c])]
        co == pass.coeff
        out == add_amp(pass.m1, scale_amp(input, co.b0))
    IN  [pass |-> [coeff |-> co,
                   m1 |-> add_amp(pass.m2, add_amp(scale_amp(input, co.b1),
                                                    scale_amp(out, DecNeg(co.a1)))),
                   m2 |-> add_amp(scale_amp(input, co.b2), scale_amp(out, DecNeg(co.a2)))],
         out |-> out]

\* Filter::new
FilterNew(rate) ==
    [pass_a |-> from_kind("Shelving", rate), pass_b |-> from_kind("HighPass", rate)]

\* Filter::apply with the passes in the other order
FilterApply_swapped(f, input) ==
    LET b == PassApply(f.pass_b, input)
        a == PassApply(f.pass_a, b.out)
    IN  [filter |-> [pass_a |-> a.pass, pass_b |-> b.pass], out |-> a.out]

\* Filter::apply: the new filter and the output frame
FilterApply(f, input) ==
    LET a == PassApply(f.pass_a, input)
        b == PassApply(f.pass_b, a.out)
    IN  [filter |-> [pass_a |-> a.pass, pass_b |-> b.pass], out |-> b.out]

-----------------------------------------------------------------------------
(* FilteredSamples over a source of exactly known length *)

None == <<>>
Some(x) == <<x>>

\* Iterator::next of the source: the item and the iterator left
SourceNext(it) ==
    IF it = <<>> THEN [item |-> None, it |-> it]
    ELSE [item |-> Some(Head(it)), it |-> Tail(it)]

\* Iterator::size_hint and ExactSizeIterator::len of the source
SourceSizeHint(it) == <<Len(it), Some(Len(it))>>
SourceLen(it) == Len(it)

\* FilteredSamples::new
FilteredSamplesNew(src, rate) == [samples |-> src, filter |-> FilterNew(rate)]

\* FilteredSamples::next that filters silence once the source has ended
FilteredSamplesNext_pad(fs) ==
    LET pulled == SourceNext(fs.samples)
        r == FilterApply(fs.filter,
                         IF pulled.item = None THEN EQUILIBRIUM ELSE pulled.item[1])
    IN  [fs |-> [samples |-> pulled.it, filter |-> r.filter],
         ret |-> IF pulled.item = None THEN None ELSE Some(r.out)]

\* FilteredSamples::next: the adapter left and the value returned
FilteredSamplesNext(fs) ==
    LET pulled == SourceNext(fs.samples)
    IN  IF pulled.item = None
        THEN [fs |-> [samples |-> pulled.it, filter |-> fs.filter], ret |-> None]
        ELSE LET r == FilterApply(fs.filter, pulled.item[1])
             IN  [fs |-> [samples |-> pulled.it, filter |-> r.filter],
                  ret |-> Some(r.out)]

\* Iterator::size_hint as the trait provides it when it is not overridden
FilteredSamplesSizeHint_default(fs) == <<0, None>>

\* FilteredSamples::size_hint
FilteredSamplesSizeHint(fs) == SourceSizeHint(fs.samples)

\* FilteredSamples::len
FilteredSamplesLen(fs) == SourceLen(fs.samples)

\* The adapter as the state holds it.
Adapter == [samples |-> samples, filter |-> filter]

\* The frames a sample source may hold: 0.0, 0.5 and -1.0 per channel.
SampleFrames ==
    { <<0, 0>>, <<5000, 0>>, <<0, -10000>>, <<-10000, 5000>> }

RECURSIVE SeqsUpTo(_, _)
\* The sequences over S of length at most n.
SeqsUpTo(S, n) ==
    IF n = 0 THEN { <<>> }
    ELSE LET shorter == SeqsUpTo(S, n - 1)
         IN  shorter \cup { Append(q, x) : q \in shorter, x \in S }

FilterConstructed ==
    /\ sample_rate \in SAMPLE_RATES
    /\ source \in SeqsUpTo(SampleFrames, MaxLen)
    /\ samples = FilteredSamplesNew(source, sample_rate).samples
    /\ filter = FilteredSamplesNew(source, sample_rate).filter
    /\ returned = None
    /\ outputs = <<>>
    /\ none_calls = 0

\* A call of next() on the adapter.
IterNext ==
    /\ none_calls < MaxNoneCalls
    /\ LET r == FilteredSamplesNext(Adapter)
       IN  /\ samples' = r.fs.samples
           /\ filter' = r.fs.filter
           /\ returned' = r.ret
           /\ IF r.ret = None
              THEN none_calls' = none_calls + 1 /\ UNCHANGED outputs
              ELSE outputs' = Append(outputs, r.ret[1]) /\ UNCHANGED none_calls
    /\ UNCHANGED <<sample_rate, source>>
    /\ UNCHANGED loudnessVars

NextFilter == IterNext

-----------------------------------------------------------------------------
(* Loudness::from_gated_powers *)

ABSOLUTE_LOUDNESS_THRESHOLD == Num(-70000)

\* line 28: block_loudness > ABSOLUTE_LOUDNESS_THRESHOLD
AbsoluteGate_ge(block_loudness) == FGe(block_loudness, ABSOLUTE_LOUDNESS_THRESHOLD)
AbsoluteGate(block_loudness) == FGt(block_loudness, ABSOLUTE_LOUDNESS_THRESHOLD)

\* line 49: absolute_loudness - 10.0
RelativeThreshold_plus(abs_loudness) == FAdd(abs_loudness, Num(10000))
RelativeThreshold(abs_loudness) == FSub(abs_loudness, Num(10000))

\* line 62: block_loudness > relative_loudness_threshold
RelativeGate_all(block_loudness, threshold) == TRUE
RelativeGate(block_loudness, threshold) == FGt(block_loudness, threshold)

\* The power vectors a signal may yield, in power quanta per channel.
PowerFrames ==
    { <<0, 0>>, <<3, 3>>, <<5, 5>>, <<10, 1>>, <<200, 20>>, <<2000, 200>> }

ToFrame(t) == [c \in Channels |-> Num(t[c])]

\* Power vectors with a channel that is not finite.
NonFiniteFrames ==
    { [c \in Channels |-> IF c = 1 THEN NaN ELSE Num(5)],
      [c \in Channels |-> IF c = 1 THEN PosInf ELSE Num(0)] }

InputFrames == { ToFrame(t) : t \in PowerFrames } \cup NonFiniteFrames

WeightFrames == { ToFrame(t) : t \in { <<1, 1>>, <<1, 2>>, <<1, -1>> } }

LoudnessEntry ==
    /\ pc = "abs"
    /\ gated_powers = <<>>
    /\ channel_weights \in WeightFrames
    /\ averager = StatsNew
    /\ absolutely_loud_blocks = <<>>
    /\ num_gates = 0
    /\ absolute_loudness = Unset
    /\ relative_loudness_threshold = Unset
    /\ relative_averager = StatsNew
    /\ rel_pos = 0
    /\ relative_loudness = Unset

\* One iteration of the loop of lines 23-34 on the block the signal yields.
AbsolutePass(channel_powers) ==
    /\ pc = "abs"
    /\ num_gates < MaxBlocks
    /\ LET j == num_gates
           block_loudness == loudness(channel_powers, channel_weights)
       IN  IF AbsoluteGate(block_loudness)
           THEN /\ averager' = StatsAdd(averager, channel_powers)
                /\ absolutely_loud_blocks' =
                       Append(absolutely_loud_blocks,
                              [j |-> j, block_loudness |-> block_loudness,
                               channel_powers |-> channel_powers])
           ELSE UNCHANGED <<averager, absolutely_loud_blocks>>
    /\ gated_powers' = Append(gated_powers, channel_powers)
    /\ num_gates' = num_gates + 1
    /\ UNCHANGED <<pc, channel_weights, absolute_loudness,
                   relative_loudness_threshold, relative_averager, rel_pos,
                   relative_loudness>>
    /\ UNCHANGED filterVars

\* The signal is exhausted: lines 43-56.
SignalEnd ==
    /\ pc = "abs"
    /\ absolute_loudness' = loudness(StatsMean(averager), channel_weights)
    /\ relative_loudness_threshold' = RelativeThreshold(absolute_loudness')
    /\ relative_averager' = StatsNew
    /\ rel_pos' = 0
    /\ pc' = "rel"
    /\ UNCHANGED <<gated_powers, channel_weights, averager,
                   absolutely_loud_blocks, num_gates, relative_loudness>>
    /\ UNCHANGED filterVars

\* One iteration of the loop of lines 58-65.
RelativePass ==
    /\ pc = "rel"
    /\ rel_pos < Len(absolutely_loud_blocks)
    /\ LET block == absolutely_loud_blocks[rel_pos + 1]
       IN  IF RelativeGate(block.block_loudness, relative_loudness_threshold)
           THEN relative_averager' = StatsAdd(relative_averager, block.channel_powers)
           ELSE UNCHANGED relative_averager
    /\ rel_pos' = rel_pos + 1
    /\ UNCHANGED <<pc, gated_powers, channel_weights, averager,
                   absolutely_loud_blocks, num_gates, absolute_loudness,
                   relative_loudness_threshold, relative_loudness>>
    /\ UNCHANGED filterVars

\* Lines 67-70 with the absolute threshold returned when no block passed the
\* relative gate
Return_floored ==
    /\ pc = "rel"
    /\ rel_pos = Len(absolutely_loud_blocks)
    /\ relative_loudness' =
           IF relative_averager.count = 0 THEN ABSOLUTE_LOUDNESS_THRESHOLD
           ELSE loudness(StatsMean(relative_averager), channel_weights)
    /\ pc' = "done"
    /\ UNCHANGED <<gated_powers, channel_weights, averager,
                   absolutely_loud_blocks, num_gates, absolute_loudness,
                   relative_loudness_threshold, relative_averager, rel_pos>>
    /\ UNCHANGED filterVars

\* Lines 67-70: the loudness of the mean of the relatively loud blocks.
Return ==
    /\ pc = "rel"
    /\ rel_pos = Len(absolutely_loud_blocks)
    /\ relative_loudness' = loudness(StatsMean(relative_averager), channel_weights)
    /\ pc' = "done"
    /\ UNCHANGED <<gated_powers, channel_weights, averager,
                   absolutely_loud_blocks, num_gates, absolute_loudness,
                   relative_loudness_threshold, relative_averager, rel_pos>>
    /\ UNCHANGED filterVars

NextLoudness ==
    \/ \E channel_powers \in InputFrames : AbsolutePass(channel_powers)
    \/ SignalEnd
    \/ RelativePass
    \/ Return

\* The filter part at rest while the loudness part runs: an adapter over an
\* empty source.
FilterIdle ==
    /\ FilterConstructed
    /\ sample_rate = 48000
    /\ source = <<>>

\* The loudness part at rest while the filter part runs.
LoudnessIdle ==
    /\ LoudnessEntry
    /\ channel_weights = ToFrame(<<1, 1>>)

InitLoudness == LoudnessEntry /\ FilterIdle

SpecLoudness == InitLoudness /\ [][NextLoudness]_vars

InitFilter == FilterConstructed /\ LoudnessIdle

SpecFilter == InitFilter /\ [][NextFilter]_vars

-----------------------------------------------------------------------------
(* Properties of Loudness::from_gated_powers *)

\* A loudness strictly above a threshold; never when either is not a number.
Above(bl, th) ==
    \/ bl.cls = "pinf" /\ th.cls \in {"num", "ninf"}
    \/ bl.cls = "num" /\ th.cls = "ninf"
    \/ bl.cls = "num" /\ th.cls = "num" /\ bl.v > th.v

BlockLoudness(j) == loudness(gated_powers[j], channel_weights)

\* The block the last step of the absolute pass took from the signal.
LastBlock == gated_powers[Len(gated_powers)]

\* C1: both gates are strict.  A step of the absolute pass on a block whose
\* loudness is exactly -70.0 LKFS leaves the first accumulator and the
\* retained list alone, and a step of the relative pass on a retained block
\* whose loudness equals the relative threshold leaves the second accumulator
\* alone; a step that does add a block has a block strictly above the
\* threshold of its pass.
C1_StrictGates ==
    [][ /\ (pc = "abs" /\ num_gates' = num_gates + 1) =>
            LET bl == loudness(LastBlock', channel_weights)
            IN  /\ bl = Num(-70000) =>
                       UNCHANGED <<averager, absolutely_loud_blocks>>
                /\ (averager' # averager \/ absolutely_loud_blocks' # absolutely_loud_blocks) =>
                       Above(bl, Num(-70000))
        /\ (pc = "rel" /\ rel_pos' = rel_pos + 1) =>
            LET bl == absolutely_loud_blocks[rel_pos'].block_loudness
                th == relative_loudness_threshold
            IN  /\ bl = th => UNCHANGED relative_averager
                /\ relative_averager' # relative_averager => Above(bl, th)
      ]_vars

\* C1 witness: a finished run that met a block at exactly -70.0 LKFS and a
\* retained block at exactly the relative threshold.
C1_Witness ==
    /\ pc = "done"
    /\ \E j \in 1..Len(gated_powers) : BlockLoudness(j) = Num(-70000)
    /\ \E i \in 1..Len(absolutely_loud_blocks) :
           absolutely_loud_blocks[i].block_loudness = relative_loudness_threshold

RECURSIVE SumFrames(_)
\* The per-channel sum of the blocks whose indices are in S.
SumFrames(S) ==
    IF S = {} THEN [c \in Channels |-> Num(0)]
    ELSE LET j == CHOOSE k \in S : TRUE
             rest == SumFrames(S \ {j})
         IN  [c \in Channels |-> FAdd(rest[c], gated_powers[j][c])]

MeanFrames(S) == [c \in Channels |-> FDiv(SumFrames(S)[c], Num(Cardinality(S)))]

\* S1: the blocks above the absolute threshold.
S1 == { j \in 1..Len(gated_powers) : Above(BlockLoudness(j), Num(-70000)) }

S1Threshold ==
    LET abs_loudness == loudness(MeanFrames(S1), channel_weights)
    IN  IF abs_loudness.cls = "num" THEN Num(abs_loudness.v - 10000) ELSE abs_loudness

\* S2: the blocks of S1 above the relative threshold.
S2 == { j \in S1 : Above(BlockLoudness(j), S1Threshold) }

\* C2: the value returned is L(mean of S2), the second accumulator holds each
\* block of S2 exactly once and nothing else, and the retained list is S1 in
\* block order.
C2_GatedMean ==
    pc = "done" =>
        /\ relative_loudness = loudness(MeanFrames(S2), channel_weights)
        /\ relative_averager.count = Cardinality(S2)
        /\ relative_averager.acc = SumFrames(S2)
        /\ averager.count = Cardinality(S1)
        /\ averager.acc = SumFrames(S1)
        /\ { absolutely_loud_blocks[i].j + 1 : i \in 1..Len(absolutely_loud_blocks) } = S1
        /\ relative_loudness_threshold = S1Threshold

\* C2 witness: a finished run in which each gate dropped a block and a block
\* passed both.
C2_Witness ==
    /\ pc = "done"
    /\ S1 # 1..Len(gated_powers)
    /\ S2 # S1
    /\ S2 # {}
    /\ relative_loudness.cls = "num"

\* C8: on an empty power sequence the function runs through both passes with
\* nothing retained and nothing accumulated, can always take its next step,
\* and returns the one value the loudness of an empty mean has: not a
\* number.
C8_EmptySequence ==
    /\ (num_gates = 0 /\ pc # "done") => ENABLED (SignalEnd \/ Return)
    /\ (num_gates = 0 /\ pc \in {"rel", "done"}) =>
           /\ averager.count = 0
           /\ absolutely_loud_blocks = <<>>
           /\ relative_averager.count = 0
           /\ absolute_loudness = NaN
           /\ relative_loudness_threshold = NaN
    /\ (num_gates = 0 /\ pc = "done") => relative_loudness = NaN

\* C8 witness: the function has returned on an empty sequence.
C8_Witness == pc = "done" /\ num_gates = 0 /\ gated_powers = <<>>

\* Every channel of every block the signal yielded is a finite power.
FinitePowers ==
    \A j \in 1..Len(gated_powers) : \A c \in Channels : gated_powers[j][c].cls = "num"

-----------------------------------------------------------------------------
(* Properties of FilterPass, Filter and FilteredSamples *)

\* The samples next() has pulled from the source so far.
Consumed == SubSeq(source, 1, Len(source) - Len(samples))

IsZeroFrame(f) == \A c \in Channels : f[c] = 0

PassAtRest(pass) == IsZeroFrame(pass.m1) /\ IsZeroFrame(pass.m2)

\* C3: as long as every sample pulled so far was all-zero, every output was
\* all-zero and both delay values of both passes are still zero.
C3_SilenceFixedPoint ==
    (\A i \in 1..Len(Consumed) : IsZeroFrame(Consumed[i])) =>
        /\ \A i \in 1..Len(outputs) : IsZeroFrame(outputs[i])
        /\ PassAtRest(filter.pass_a)
        /\ PassAtRest(filter.pass_b)
        /\ Len(outputs) = Len(Consumed)

\* C3 witness: two all-zero samples have been filtered.
C3_Witness ==
    /\ Len(outputs) >= 2
    /\ \A i \in 1..Len(Consumed) : IsZeroFrame(Consumed[i])

RECURSIVE RunFilter(_, _)
\* The filter left and the outputs produced by applying f to the frames of
\* ins in order.
RunFilter(f, ins) ==
    IF ins = <<>> THEN [filter |-> f, outs |-> <<>>]
    ELSE LET before == RunFilter(f, SubSeq(ins, 1, Len(ins) - 1))
             r == FilterApply(before.filter, ins[Len(ins)])
         IN  [filter |-> r.filter, outs |-> Append(before.outs, r.out)]

\* C4: the adapter is 1:1 with its source.  The outputs so far are the
\* filter applied to the samples pulled so far in their order, one output
\* per sample pulled; the filter's state is the one those samples left
\* (calls that returned None did not advance it); None is returned only by
\* an exhausted source and an exhausted source returns only None, so that a
\* source of length L yields exactly L outputs.
C4_OneToOne ==
    LET run == RunFilter(FilterNew(sample_rate), Consumed)
    IN  /\ Len(outputs) + Len(samples) = Len(source)
        /\ outputs = run.outs
        /\ filter = run.filter
        /\ none_calls > 0 => (samples = <<>> /\ returned = None)
        /\ (returned = None /\ Len(outputs) + none_calls > 0) =>
               (samples = <<>> /\ none_calls > 0)
        /\ (returned # None) => (none_calls = 0 /\ returned = Some(outputs[Len(outputs)]))
        /\ samples = <<>> => Len(outputs) = Len(source)

\* C4 witness: a source of several samples was drained and next() was called
\* again after it had returned None.
C4_Witness ==
    /\ Len(source) >= 2
    /\ Len(outputs) = Len(source)
    /\ none_calls >= 2
    /\ \E i \in 1..Len(source) : ~IsZeroFrame(source[i])

\* C5: the remaining length the adapter reports, through size_hint() and
\* through len(), is the source's length less the samples returned so far,
\* which is what the source reports; it is 0 once the source is exhausted.
C5_LengthForwarded ==
    LET remaining == Len(source) - Len(outputs)
    IN  /\ FilteredSamplesSizeHint(Adapter) = <<remaining, Some(remaining)>>
        /\ FilteredSamplesLen(Adapter) = remaining
        /\ FilteredSamplesSizeHint(Adapter) = SourceSizeHint(samples)
        /\ FilteredSamplesLen(Adapter) = SourceLen(samples)
        /\ none_calls > 0 => FilteredSamplesLen(Adapter) = 0

\* C5 witness: an adapter between two pulls, with samples returned and
\* samples left.
C5_Witness == Len(outputs) >= 1 /\ Len(samples) >= 2

RECURSIVE RunPass(_, _)
\* The pass left and the outputs produced by applying one FilterPass to the
\* frames of ins in order.
RunPass(pass, ins) ==
    IF ins = <<>> THEN [pass |-> pass, outs |-> <<>>]
    ELSE LET before == RunPass(pass, SubSeq(ins, 1, Len(ins) - 1))
             r == PassApply(before.pass, ins[Len(ins)])
         IN  [pass |-> r.pass, outs |-> Append(before.outs, r.out)]

\* C6: the shelving pass runs on the raw input and the high-pass pass on the
\* shelving pass's output, each advancing once per call: pass_a is a
\* shelving pass that saw the samples pulled, pass_b a high-pass pass that
\* saw the shelving outputs, and the outputs are the high-pass outputs.  The
\* first output equals the first output of a shelving pass alone.
C6_ShelvingThenHighPass ==
    LET shelving == RunPass(from_kind("Shelving", sample_rate), Consumed)
        highpass == RunPass(from_kind("HighPass", sample_rate), shelving.outs)
    IN  /\ filter.pass_a = shelving.pass
        /\ filter.pass_b = highpass.pass
        /\ outputs = highpass.outs
        /\ Len(outputs) >= 1 => outputs[1] = shelving.outs[1]

\* C6 witness: two non-zero samples have been filtered and the second
\* output differs from the shelving pass's second output.
C6_Witness ==
    /\ Len(outputs) >= 2
    /\ ~IsZeroFrame(Consumed[1])
    /\ outputs[2] # RunPass(from_kind("Shelving", sample_rate), Consumed).outs[2]

\* One Direct-Form-II-Transposed step of channel c: from the pass p and the
\* input x to the pass q and the output o.
Df2tStep(p, x, q, o, c) ==
    /\ o[c] = p.m1[c] + FixMul(x[c], Fix(p.coeff.b0))
    /\ q.m1[c] = p.m2[c] + FixMul(x[c], Fix(p.coeff.b1)) + FixMul(o[c], Fix(DecNeg(p.coeff.a1)))
    /\ q.m2[c] = FixMul(x[c], Fix(p.coeff.b2)) + FixMul(o[c], Fix(DecNeg(p.coeff.a2)))
    /\ q.coeff = p.coeff

\* C9: a FilterPass starts with m1 = m2 = 0, and every call of apply is the
\* Direct-Form-II-Transposed step of each channel on that channel's own
\* input and pre-call state; the coefficients stay as constructed.
C9_Df2tStep ==
    /\ (outputs = <<>> => PassAtRest(filter.pass_a) /\ PassAtRest(filter.pass_b))
    /\ filter.pass_a.coeff = CoefficientTable["Shelving"][sample_rate]
    /\ filter.pass_b.coeff = CoefficientTable["HighPass"][sample_rate]
    /\ [][ Len(outputs') = Len(outputs) + 1 =>
             LET x == Head(samples)
                 mid == [c \in Channels |->
                           filter.pass_a.m1[c] + FixMul(x[c], Fix(filter.pass_a.coeff.b0))]
                 out == outputs'[Len(outputs')]
             IN  \A c \in Channels :
                     /\ Df2tStep(filter.pass_a, x, filter'.pass_a, mid, c)
                     /\ Df2tStep(filter.pass_b, mid, filter'.pass_b, out, c)
         ]_vars

\* C9 witness: a pass with non-zero delay values has taken another step.
C9_Witness ==
    /\ Len(outputs) >= 2
    /\ ~IsZeroFrame(Consumed[1])
    /\ ~PassAtRest(filter.pass_a)
    /\ ~PassAtRest(filter.pass_b)

\* The reference coefficients of the shelving filter (tests::coefficients),
\* rounded to twelve fractional digits.
ShelvingReference(rate) ==
    CASE rate = 48000 ->
        [a1 |-> DecNeg(<< 1, 6906, 5929, 3182 >>),
         a2 |-> << 0, 7324, 8077, 4216 >>,
         b0 |-> << 1, 5351, 2485, 9587 >>,
         b1 |-> DecNeg(<< 2, 6916, 9618, 9406 >>),
         b2 |-> << 1, 1983, 9281, 853 >>]
      [] rate = 44100 ->
        [a1 |-> DecNeg(<< 1, 6636, 5511, 3256 >>),
         a2 |-> << 0, 7125, 9542, 8073 >>,
         b0 |-> << 1, 5308, 4123, 50 >>,
         b1 |-> DecNeg(<< 2, 6509, 7999, 5155 >>),
         b2 |-> << 1, 1690, 7907, 9922 >>]
      [] rate = 8000 ->
        [a1 |-> DecNeg(<< 0, 2933, 8078, 2415 >>),
         a2 |-> << 0, 1868, 7510, 6045 >>,
         b0 |-> << 1, 3216, 2356, 8930 >>,
         b1 |-> DecNeg(<< 0, 7262, 5549, 1316 >>),
         b2 |-> << 0, 2981, 2624, 6016 >>]
      [] rate = 192000 ->
        [a1 |-> DecNeg(<< 1, 9222, 223, 607 >>),
         a2 |-> << 0, 9251, 1773, 5117 >>,
         b0 |-> << 1, 5722, 2721, 5091 >>,
         b1 |-> DecNeg(<< 3, 472, 8305, 1562 >>),
         b2 |-> << 1, 4779, 7134, 980 >>]

\* The reference coefficients of the high-pass filter at 48000 Hz.
HighPassReference ==
        [a1 |-> DecNeg(<< 1, 9900, 4745, 4834 >>),
         a2 |-> << 0, 9900, 7225, 366 >>,
         b0 |-> << 1, 0, 0, 0 >>,
         b1 |-> DecNeg(<< 2, 0, 0, 0 >>),
         b2 |-> << 1, 0, 0, 0 >>]

\* |x - y| <= 1e-9
WithinTolerance(x, y) ==
    LET tolerance == << 0, 0, 0, 1000 >>
        d == DecSub(x, y)
    IN  DecLeq(d, tolerance) /\ DecLeq(DecNeg(tolerance), d)

CoefficientsMatch(co, ref) ==
    /\ WithinTolerance(co.a1, ref.a1)
    /\ WithinTolerance(co.a2, ref.a2)
    /\ WithinTolerance(co.b0, ref.b0)
    /\ WithinTolerance(co.b1, ref.b1)
    /\ WithinTolerance(co.b2, ref.b2)

\* C7: the coefficients a filter was constructed with match the reference
\* constants to within 1e-9: the shelving ones at each of the four sample
\* rates and the high-pass ones at 48000 Hz, where references exist; the
\* high-pass numerator is exactly 1, -2, 1 at every sample rate.
C7_ReferenceCoefficients ==
    /\ CoefficientsMatch(filter.pass_a.coeff, ShelvingReference(sample_rate))
    /\ sample_rate = 48000 => CoefficientsMatch(filter.pass_b.coeff, HighPassReference)
    /\ filter.pass_b.coeff.b0 = DecInt(1)
    /\ filter.pass_b.coeff.b1 = DecInt(-2)
    /\ filter.pass_b.coeff.b2 = DecInt(1)

\* C7 witness: a filter constructed for 48000 Hz, the rate at which both
\* kinds have references, whose passes hold different denominators.
C7_Witness ==
    /\ sample_rate = 48000
    /\ filter = FilterNew(48000)
    /\ filter.pass_a.coeff.a1 # filter.pass_b.coeff.a1

====
